---------------------------- MODULE Spec2Model ----------------------------
(***************************************************************************)
(* Model of the BQC qualification rules engine (src/BQC.py, desktop        *)
(* variant; src/earth_engine.py, web variant).                             *)
(*                                                                         *)
(* Number representation.  The code computes with Python floats fed by     *)
(* two-decimal spin boxes.  The model computes the same expressions        *)
(* exactly, in fixed point:                                                *)
(*   - currency amounts (Lakhs), contract_period_years and                 *)
(*     correction_factor are integers counting hundredths (Scale);         *)
(*   - percentages (base_percentage, option_x_percent) are integers        *)
(*     counting thousandths, so 30% is 300 and 36% is 360;                 *)
(*   - a percentage times an amount is an integer counting units of        *)
(*     1/(1000 * Scale) Lakh, so 360 Lakhs is 36000000;                    *)
(*   - a quotient (annualized value, in Lakhs) is a reduced fraction       *)
(*     [num, den];                                                         *)
(*   - supplying capacities and months are plain integers.                 *)
(***************************************************************************)
EXTENDS Integers, Sequences, FiniteSets, TLC

\* data: the record behind the form (self.data, st.session_state.data);
\* out: what the last operation returned or displayed;
\* form_errors: st.session_state.form_errors of the web page.
\* labels: the figures on the labels of the desktop window;
\* db: the SQLite database (tables users and bqc_data);
\* login: the login dialog and the main window it leads to.
VARIABLES data, out, form_errors, labels, db, login, load_dialog

vars == <<data, out, form_errors, labels, db, login, load_dialog>>

\* The state outside the form of a front-end.
environment == <<db, login, load_dialog>>

\* Hundredths: the two decimals of the QDoubleSpinBox inputs.
Scale == 100

\* float('inf'), the threshold of the last EMD tier.
Inf == 100000000

\* EMD_THRESHOLDS: (upper bound, EMD), both in Lakhs, scaled by Scale.
EMD_THRESHOLDS ==
    << <<50 * Scale, 0>>,
       <<100 * Scale, 1 * Scale>>,
       <<500 * Scale, 250>>,
       <<1000 * Scale, 5 * Scale>>,
       <<1500 * Scale, 750>>,
       <<2500 * Scale, 10 * Scale>>,
       <<Inf, 20 * Scale>> >>

TENDER_TYPES == {"Goods", "Service", "Works"}

DIVISIBILITY_OPTIONS == {"Non-Divisible", "Divisible"}

\* The literal list the carve-out tests membership in: ['Goods', 'Services'].
CarveOutTypes == {"Goods", "Services"}

\* The literal list of the experience branch: ['Service', 'Works'].
ExperienceTypes == {"Service", "Works"}

---------------------------------------------------------------------------
(* Arithmetic helpers *)

Abs(x) == IF x < 0 THEN -x ELSE x

RECURSIVE GCD(_, _)
GCD(a, b) == IF b = 0 THEN a ELSE GCD(b, a % b)

\* The exact value n/d of a Python true division with d # 0, as a reduced
\* fraction with a positive denominator.
Frac(n, d) ==
    LET g == GCD(Abs(n), Abs(d))
        s == IF d < 0 THEN -1 ELSE 1
    IN  [num |-> s * (n \div g), den |-> s * (d \div g)]

\* Python's x / y: raises ZeroDivisionError when y = 0.
ZeroDivisionError == [num |-> 0, den |-> 0]

Div(n, d) == IF d = 0 THEN ZeroDivisionError ELSE Frac(n, d)

\* Python's int(x) for x = n/d with n >= 0, d > 0: truncation.
Trunc(n, d) == n \div d

---------------------------------------------------------------------------
(* calculate_emd *)

\* for threshold, emd in EMD_THRESHOLDS[i..]: first tier with
\* estimated_value <= threshold; falls through to 20.
\* Variant of ScanThresholds with exclusive upper bounds (< for <=).
RECURSIVE ScanThresholds_exclusive(_, _, _)
ScanThresholds_exclusive(estimated_value, tender_type, i) ==
    IF i > Len(EMD_THRESHOLDS) THEN 20 * Scale
    ELSE IF estimated_value < EMD_THRESHOLDS[i][1]
         THEN IF EMD_THRESHOLDS[i][1] = 100 * Scale /\ tender_type \in CarveOutTypes
              THEN 0
              ELSE EMD_THRESHOLDS[i][2]
         ELSE ScanThresholds_exclusive(estimated_value, tender_type, i + 1)

\* Variant of ScanThresholds with the carve-out on the 500 tier.
RECURSIVE ScanThresholds_carve500(_, _, _)
ScanThresholds_carve500(estimated_value, tender_type, i) ==
    IF i > Len(EMD_THRESHOLDS) THEN 20 * Scale
    ELSE IF estimated_value <= EMD_THRESHOLDS[i][1]
         THEN IF EMD_THRESHOLDS[i][1] = 500 * Scale /\ tender_type \in CarveOutTypes
              THEN 0
              ELSE EMD_THRESHOLDS[i][2]
         ELSE ScanThresholds_carve500(estimated_value, tender_type, i + 1)

RECURSIVE ScanThresholds(_, _, _)
ScanThresholds(estimated_value, tender_type, i) ==
    IF i > Len(EMD_THRESHOLDS) THEN 20 * Scale
    ELSE IF estimated_value <= EMD_THRESHOLDS[i][1]
         THEN IF EMD_THRESHOLDS[i][1] = 100 * Scale /\ tender_type \in CarveOutTypes
              THEN 0
              ELSE EMD_THRESHOLDS[i][2]
         ELSE ScanThresholds(estimated_value, tender_type, i + 1)

calculate_emd(estimated_value, tender_type) ==
    IF estimated_value < 50 * Scale THEN 0
    ELSE ScanThresholds(estimated_value, tender_type, 1)

---------------------------------------------------------------------------
(* generate_bqc_document (desktop), the figures computed before rendering *)

\* Variant of base_percentage that ignores divisibility (always 30%).
base_percentage_flat(d) == 300

\* Variant of base_percentage that applies the factor whatever the divisibility.
base_percentage_always(d) == 3 * (Scale + d.correction_factor)

\* base_percentage, in thousandths: 0.3, or 0.3 * (1 + correction_factor).
base_percentage(d) ==
    IF d.divisibility = "Divisible"
    THEN 3 * (Scale + d.correction_factor)
    ELSE 300

\* maintenance_value = 0; if data['has_amc']: maintenance_value = amc_value.
maintenance_value(d) == IF d.has_amc THEN d.amc_value ELSE 0

\* Variant of turnover_requirement using the excl. GST estimate in both branches.
turnover_requirement_excl(d) ==
    IF maintenance_value(d) > 0
    THEN base_percentage(d) * (d.cec_estimate_excl_gst - maintenance_value(d))
    ELSE base_percentage(d) * d.cec_estimate_excl_gst

turnover_requirement(d) ==
    IF maintenance_value(d) > 0
    THEN base_percentage(d) * (d.cec_estimate_incl_gst - maintenance_value(d))
    ELSE base_percentage(d) * d.cec_estimate_excl_gst

\* Variant of option_percents that drops the correction factor.
option_percents_no_factor(d) == [a |-> 400, b |-> 500, c |-> 800]

\* option_a_percent, option_b_percent, option_c_percent, in thousandths.
option_percents(d) ==
    IF d.divisibility = "Divisible"
    THEN [a |-> 4 * (Scale + d.correction_factor),
          b |-> 5 * (Scale + d.correction_factor),
          c |-> 8 * (Scale + d.correction_factor)]
    ELSE [a |-> 400, b |-> 500, c |-> 800]

\* option_x_value = option_x_percent * data['cec_estimate_incl_gst'].
option_values(d) ==
    [a |-> option_percents(d).a * d.cec_estimate_incl_gst,
     b |-> option_percents(d).b * d.cec_estimate_incl_gst,
     c |-> option_percents(d).c * d.cec_estimate_incl_gst]

\* Variant of period_is_positive that lets a zero period through (>= for >).
period_is_nonnegative(d) == d.contract_period_years >= 0

\* The guard of the annualized-value division.
period_is_positive(d) == d.contract_period_years > 0

\* Variant of annualized_value without the fallback to the supplied value.
annualized_value_no_fallback(d) ==
    IF period_is_positive(d)
    THEN [value    |-> Div(d.cec_estimate_excl_gst, d.contract_period_years),
          divisors |-> {d.contract_period_years}]
    ELSE [value |-> Frac(0, 1), divisors |-> {}]

\* The annualized value (Lakhs) and the divisors the computation used.
annualized_value(d) ==
    IF period_is_positive(d)
    THEN [value    |-> Div(d.cec_estimate_excl_gst, d.contract_period_years),
          divisors |-> {d.contract_period_years}]
    ELSE [value |-> d.annualized_value, divisors |-> {}]

\* Variant of calculated_supplying_capacity that rounds to nearest.
calculated_supplying_capacity_rounded(d) ==
    Trunc(d.supplying_capacity * 3 + 5, 10)

\* int(base_supplying_capacity * 0.3)
calculated_supplying_capacity(d) == Trunc(d.supplying_capacity * 3, 10)

\* Variant of final_supplying_capacity that relaxes the raw base in one step.
final_supplying_capacity_raw(d) ==
    IF d.mse_relaxation
    THEN Trunc(d.supplying_capacity * 255, 1000)
    ELSE calculated_supplying_capacity(d)

\* int(calculated_supplying_capacity * 0.85) under MSE relaxation.
final_supplying_capacity(d) ==
    IF d.mse_relaxation
    THEN Trunc(calculated_supplying_capacity(d) * 85, 100)
    ELSE calculated_supplying_capacity(d)

\* The literal list of the performance-security branch: ['Goods', 'Services'].
StandardPsTypes == {"Goods", "Services"}

\* standard_ps: 5 when tender_type is in the list, else 10.
standard_ps(d) == IF d.tender_type \in StandardPsTypes THEN 5 ELSE 10

\* The performance-security paragraph: the requested percent is printed as
\* an override when it differs from standard_ps.
performance_security(d) ==
    [requested |-> d.performance_security,
     standard |-> standard_ps(d),
     is_overridden |-> d.performance_security # standard_ps(d)]

\* What generate_bqc_document returns: the figures rendered into the
\* document, or None (ok = FALSE) when the try block raised.
generate_bqc_document(d) ==
    LET av == annualized_value(d)
        ex == d.tender_type \in ExperienceTypes
    IN  [op |-> "generate_bqc_document",
         ok |-> av.value # ZeroDivisionError,
         emd_amount |-> calculate_emd(d.cec_estimate_excl_gst, d.tender_type),
         base_percentage |-> base_percentage(d),
         turnover_requirement |-> turnover_requirement(d),
         has_experience |-> ex,
         option_percents |-> IF ex THEN option_percents(d)
                             ELSE [a |-> 0, b |-> 0, c |-> 0],
         option_values |-> IF ex THEN option_values(d)
                           ELSE [a |-> 0, b |-> 0, c |-> 0],
         annualized_value |-> av.value,
         divisors |-> av.divisors,
         calculated_supplying_capacity |-> calculated_supplying_capacity(d),
         final_supplying_capacity |-> final_supplying_capacity(d),
         performance_security |-> performance_security(d)]

---------------------------------------------------------------------------
(* BQCGeneratorApp.update_calculated_values: the live preview (desktop) *)

\* The annualized-value block: divides only under its guard, stores the
\* quotient in data['annualized_value']; otherwise the label shows 0.00 and
\* the stored value is left alone.
preview_annualized(d) ==
    IF d.contract_period_years > 0
    THEN [label    |-> Div(d.cec_estimate_excl_gst, d.contract_period_years),
          stored   |-> Div(d.cec_estimate_excl_gst, d.contract_period_years),
          divisors |-> {d.contract_period_years}]
    ELSE [label    |-> Frac(0, 1),
          stored   |-> d.annualized_value,
          divisors |-> {}]

preview_base_percentage(d) ==
    IF d.divisibility = "Divisible"
    THEN 3 * (Scale + d.correction_factor)
    ELSE 300

preview_maintenance_value(d) == IF d.has_amc THEN d.amc_value ELSE 0

preview_turnover_requirement(d) ==
    IF preview_maintenance_value(d) > 0
    THEN preview_base_percentage(d)
            * (d.cec_estimate_incl_gst - preview_maintenance_value(d))
    ELSE preview_base_percentage(d) * d.cec_estimate_excl_gst

preview_option_percents(d) ==
    IF d.divisibility = "Divisible"
    THEN [a |-> 4 * (Scale + d.correction_factor),
          b |-> 5 * (Scale + d.correction_factor),
          c |-> 8 * (Scale + d.correction_factor)]
    ELSE [a |-> 400, b |-> 500, c |-> 800]

preview_option_values(d) ==
    [a |-> preview_option_percents(d).a * d.cec_estimate_incl_gst,
     b |-> preview_option_percents(d).b * d.cec_estimate_incl_gst,
     c |-> preview_option_percents(d).c * d.cec_estimate_incl_gst]

\* The labels the handler writes.  The experience label is written only for
\* Service/Works (has_experience).
update_calculated_values(d) ==
    LET av == preview_annualized(d)
        ex == d.tender_type \in ExperienceTypes
    IN  [op |-> "update_calculated_values",
         ok |-> av.label # ZeroDivisionError,
         emd_amount |-> calculate_emd(d.cec_estimate_excl_gst, d.tender_type),
         base_percentage |-> preview_base_percentage(d),
         turnover_requirement |-> preview_turnover_requirement(d),
         has_experience |-> ex,
         option_percents |-> IF ex THEN preview_option_percents(d)
                             ELSE [a |-> 0, b |-> 0, c |-> 0],
         option_values |-> IF ex THEN preview_option_values(d)
                           ELSE [a |-> 0, b |-> 0, c |-> 0],
         annualized_value |-> av.label,
         divisors |-> av.divisors]

\* The figures on the labels after the handler ran over record d when they
\* showed prev before: every label is rewritten except the experience
\* label, which is rewritten only for Service/Works.
written_labels(prev, d) ==
    LET cv == update_calculated_values(d)
    IN  [annualized_value |-> cv.annualized_value,
         base_percentage |-> cv.base_percentage,
         turnover_requirement |-> cv.turnover_requirement,
         emd_amount |-> cv.emd_amount,
         experience_written |-> prev.experience_written \/ cv.has_experience,
         option_values |-> IF cv.has_experience THEN cv.option_values
                           ELSE prev.option_values]

\* self.data after the handler ran: the quotient is stored.
recalculated(d) == [d EXCEPT !.annualized_value = preview_annualized(d).stored]

---------------------------------------------------------------------------
(* BQCGeneratorApp.update_supplying_capacity: the capacity label (desktop) *)

\* calculated_value = int(value * 0.3)
label_calculated_value(value) == Trunc(value * 3, 10)

\* update_mse_relaxation_display: int(int(base * 0.3) * 0.85), written to the
\* MSE label only when mse_relaxation is set.
mse_relaxation_display(d) ==
    IF d.mse_relaxation
    THEN [shown |-> TRUE,
          calculated_value |-> Trunc(d.supplying_capacity * 3, 10),
          relaxed_value |-> Trunc(Trunc(d.supplying_capacity * 3, 10) * 85, 100)]
    ELSE [shown |-> FALSE, calculated_value |-> 0, relaxed_value |-> 0]

\* The labels the handler writes: the capacity label, the MSE label when
\* mse_relaxation is set, and those of update_calculated_values.
update_supplying_capacity(d, value) ==
    LET d1 == [d EXCEPT !.supplying_capacity = value]
        cv == update_calculated_values(d1)
    IN  [op |-> "update_supplying_capacity",
         ok |-> cv.ok,
         base |-> value,
         calculated_value |-> label_calculated_value(value),
         mse |-> IF d1.mse_relaxation THEN mse_relaxation_display(d1)
                 ELSE [shown |-> FALSE, calculated_value |-> 0,
                       relaxed_value |-> 0],
         calculated |-> cv,
         divisors |-> cv.divisors]

\* update_mse_relaxation: the flag is stored, the MSE label rewritten
\* (emptied when the flag is off) and shown only while the flag is set, and
\* update_calculated_values runs.
update_mse_relaxation(d, state) ==
    LET d1 == [d EXCEPT !.mse_relaxation = state]
        cv == update_calculated_values(d1)
    IN  [op |-> "update_mse_relaxation",
         ok |-> cv.ok,
         mse |-> mse_relaxation_display(d1),
         label_visible |-> state,
         calculated |-> cv,
         divisors |-> cv.divisors]

---------------------------------------------------------------------------
(* BQCGeneratorApp.update_tender_type (desktop) *)

\* Variant of default_performance_security that spells the services type as
\* TENDER_TYPES does.
default_performance_security_service(text) ==
    IF text \in {"Goods", "Service"} THEN 5 ELSE 10

\* The value the handler sets the performance-security spin box to.
default_performance_security(text) ==
    IF text \in {"Goods", "Services"} THEN 5 ELSE 10

\* The record after the handler, run while the performance-security spin
\* box shows the value shown: the type is stored; setValue emits valueChanged
\* only when the spin box value changes, and then update_data stores it and
\* runs update_calculated_values.  Every handler ends with the spin box
\* showing the record's value, so a change made in the combo box runs with
\* shown = d.performance_security; load_data raises the event after it has
\* assigned the record from the row and before it sets the spin box.
update_tender_type_data(d, shown, text) ==
    LET d1 == [d EXCEPT !.tender_type = text]
        ps == default_performance_security(text)
    IN  IF ps # shown
        THEN LET d2 == [d1 EXCEPT !.performance_security = ps]
             IN  [d2 EXCEPT !.annualized_value = preview_annualized(d2).stored]
        ELSE d1

update_tender_type(d, shown, text) ==
    LET d1 == [d EXCEPT !.tender_type = text]
        ps == default_performance_security(text)
        changed == ps # shown
    IN  [op |-> "update_tender_type",
         text |-> text,
         in_sync |-> shown = d.performance_security,
         spin_box_value |-> ps,
         recalculated |-> changed,
         calculated |-> IF changed
                        THEN update_calculated_values(
                                 [d1 EXCEPT !.performance_security = ps])
                        ELSE [op |-> "none"],
         ok |-> TRUE,
         divisors |-> IF changed
                      THEN preview_annualized(d1).divisors
                      ELSE {}]

---------------------------------------------------------------------------
(* src/earth_engine.py: generate_bqc_document and the preview in main() *)

\* EMD_THRESHOLDS of earth_engine.py.
web_EMD_THRESHOLDS ==
    << <<50 * Scale, 0>>,
       <<100 * Scale, 1 * Scale>>,
       <<500 * Scale, 250>>,
       <<1000 * Scale, 5 * Scale>>,
       <<1500 * Scale, 750>>,
       <<2500 * Scale, 10 * Scale>>,
       <<Inf, 20 * Scale>> >>

RECURSIVE web_ScanThresholds(_, _, _)
web_ScanThresholds(estimated_value, tender_type, i) ==
    IF i > Len(web_EMD_THRESHOLDS) THEN 20 * Scale
    ELSE IF estimated_value <= web_EMD_THRESHOLDS[i][1]
         THEN IF web_EMD_THRESHOLDS[i][1] = 100 * Scale
                    /\ tender_type \in {"Goods", "Services"}
              THEN 0
              ELSE web_EMD_THRESHOLDS[i][2]
         ELSE web_ScanThresholds(estimated_value, tender_type, i + 1)

web_calculate_emd(estimated_value, tender_type) ==
    IF estimated_value < 50 * Scale THEN 0
    ELSE web_ScanThresholds(estimated_value, tender_type, 1)

\* Variant of web_turnover_requirement on the incl. GST estimate.
web_turnover_requirement_incl(d) == 300 * d.cec_estimate_incl_gst

\* turnover_requirement = 0.3 * data['cec_estimate_excl_gst']
web_turnover_requirement(d) == 300 * d.cec_estimate_excl_gst

\* option_x_value = 0.4 / 0.5 / 0.8 * data['cec_estimate_incl_gst']
web_option_values(d) ==
    [a |-> 400 * d.cec_estimate_incl_gst,
     b |-> 500 * d.cec_estimate_incl_gst,
     c |-> 800 * d.cec_estimate_incl_gst]

\* (cec_estimate_excl_gst / contract_period_months) * 12, under its guard.
web_annualized_value(d) ==
    IF d.contract_period_months > 0
    THEN [value    |-> Div(12 * d.cec_estimate_excl_gst,
                           Scale * d.contract_period_months),
          divisors |-> {d.contract_period_months}]
    ELSE [value |-> d.annualized_value, divisors |-> {}]

\* standard_ps of earth_engine.py, same literal list.
web_standard_ps(d) == IF d.tender_type \in {"Goods", "Services"} THEN 5 ELSE 10

web_performance_security(d) ==
    [requested |-> d.performance_security,
     standard |-> web_standard_ps(d),
     is_overridden |-> d.performance_security # web_standard_ps(d)]

web_generate_bqc_document(d) ==
    LET av == web_annualized_value(d)
        ex == d.tender_type \in ExperienceTypes
    IN  [op |-> "web_generate_bqc_document",
         ok |-> av.value # ZeroDivisionError,
         emd_amount |-> web_calculate_emd(d.cec_estimate_excl_gst, d.tender_type),
         base_percentage |-> 300,
         turnover_requirement |-> web_turnover_requirement(d),
         has_experience |-> ex,
         option_percents |-> IF ex THEN [a |-> 400, b |-> 500, c |-> 800]
                             ELSE [a |-> 0, b |-> 0, c |-> 0],
         option_values |-> IF ex THEN web_option_values(d)
                           ELSE [a |-> 0, b |-> 0, c |-> 0],
         annualized_value |-> av.value,
         divisors |-> av.divisors,
         performance_security |-> web_performance_security(d)]

\* The annualized-value block of main(): same guard; the quotient is stored
\* in the session data, otherwise the value entered in the number input is.
web_main_annualized(d, entered) ==
    IF d.contract_period_months > 0
    THEN [value    |-> Div(12 * d.cec_estimate_excl_gst,
                           Scale * d.contract_period_months),
          divisors |-> {d.contract_period_months}]
    ELSE [value |-> entered, divisors |-> {}]

web_main_preview(d, entered) ==
    LET av == web_main_annualized(d, entered)
    IN  [op |-> "web_main",
         ok |-> av.value # ZeroDivisionError,
         turnover_requirement |-> 300 * d.cec_estimate_excl_gst,
         annualized_value |-> av.value,
         divisors |-> av.divisors]

---------------------------------------------------------------------------
(* validate_input (desktop) *)

\* field.replace('_', ' ').title() for the field names the validators use.
FieldTitle(field) ==
    CASE field = "ref_number" -> "Ref Number"
      [] field = "item_name" -> "Item Name"
      [] field = "project_name" -> "Project Name"
      [] field = "tender_description" -> "Tender Description"
      [] field = "pr_reference" -> "Pr Reference"
      [] field = "budget_details" -> "Budget Details"
      [] field = "scope_of_work" -> "Scope Of Work"
      [] field = "contract_period" -> "Contract Period"

\* f"Field '{...}' is required", kept as a structured message.
RequiredMessage(field) == <<"Field", FieldTitle(field), "is required">>

\* not data.get(field): the text is missing or empty.
IsEmpty(d, field) == d[field] = ""

required_fields ==
    <<"ref_number", "tender_description", "pr_reference", "budget_details",
      "scope_of_work">>

\* The loop over the required fields: one message per empty field, in the
\* order of the list.
RequiredErrors(d, fields) ==
    LET missing == SelectSeq(fields, LAMBDA f : IsEmpty(d, f))
    IN  [i \in 1 .. Len(missing) |-> RequiredMessage(missing[i])]

InclNotPositive == <<"CEC Estimate (incl. GST) must be greater than 0">>

ExclNotPositive == <<"CEC Estimate (excl. GST) must be greater than 0">>

InclBelowExcl ==
    <<"CEC Estimate (incl. GST) must be greater than or equal to CEC Estimate (excl. GST)">>

YearsNotPositive == <<"Contract Period (Years) must be greater than 0">>

DeliveryRequired == <<"Delivery Period is required for Goods tenders">>

WarrantyRequired == <<"Warranty Period is required for Goods tenders">>

SimilarWorkRequired ==
    <<"Definition of Similar Work is required for Service/Works tenders">>

MonthsOrAnnualized ==
    <<"Either Contract Period (months) or Annualized Estimated Value must be greater than 0">>

\* errors.append(message) when the condition holds.
When(cond, message) == IF cond THEN <<message>> ELSE <<>>

\* The three estimate checks.
estimate_errors(d) ==
    When(d.cec_estimate_incl_gst <= 0, InclNotPositive)
    \o When(d.cec_estimate_excl_gst <= 0, ExclNotPositive)
    \o When(d.cec_estimate_incl_gst < d.cec_estimate_excl_gst, InclBelowExcl)

\* Contract period validation (years).
period_errors(d) == When(d.contract_period_years <= 0, YearsNotPositive)

\* Variant of goods_errors that checks the fields whatever the tender type.
goods_errors_any_type(d) ==
    When(IsEmpty(d, "delivery_period"), DeliveryRequired)
    \o When(IsEmpty(d, "warranty_period"), WarrantyRequired)

\* Goods-specific validation.
goods_errors(d) ==
    IF d.tender_type = "Goods"
    THEN When(IsEmpty(d, "delivery_period"), DeliveryRequired)
         \o When(IsEmpty(d, "warranty_period"), WarrantyRequired)
    ELSE <<>>

\* Service/Works-specific validation.
service_errors(d) ==
    IF d.tender_type \in {"Service", "Works"}
    THEN When(IsEmpty(d, "similar_work_definition"), SimilarWorkRequired)
    ELSE <<>>

\* The error list in the order the checks append to it.
validation_errors(d) ==
    RequiredErrors(d, required_fields)
    \o estimate_errors(d)
    \o period_errors(d)
    \o goods_errors(d)
    \o service_errors(d)

\* Variant of validate_input that stops at the first failure.
validate_input_first_failure(d) ==
    LET errors == SubSeq(validation_errors(d), 1, 1)
    IN  [op |-> "validate_input", ok |-> Len(errors) = 0, errors |-> errors]

\* return len(errors) == 0, errors
validate_input(d) ==
    LET errors == validation_errors(d)
    IN  [op |-> "validate_input", ok |-> Len(errors) = 0, errors |-> errors]

---------------------------------------------------------------------------
(* validate_input (web, earth_engine.py) *)

web_required_fields ==
    <<"ref_number", "item_name", "project_name", "tender_description",
      "pr_reference", "budget_details", "scope_of_work", "contract_period">>

web_estimate_errors(d) ==
    When(d.cec_estimate_incl_gst <= 0, InclNotPositive)
    \o When(d.cec_estimate_excl_gst <= 0, ExclNotPositive)
    \o When(d.cec_estimate_incl_gst < d.cec_estimate_excl_gst, InclBelowExcl)

web_goods_errors(d) ==
    IF d.tender_type = "Goods"
    THEN When(IsEmpty(d, "delivery_period"), DeliveryRequired)
         \o When(IsEmpty(d, "warranty_period"), WarrantyRequired)
    ELSE <<>>

web_service_errors(d) ==
    IF d.tender_type \in {"Service", "Works"}
    THEN When(IsEmpty(d, "similar_work_definition"), SimilarWorkRequired)
    ELSE <<>>

\* data['contract_period_months'] <= 0 and data['annualized_value'] <= 0
web_period_errors(d) ==
    When(d.contract_period_months <= 0 /\ d.annualized_value.num <= 0,
         MonthsOrAnnualized)

\* The web validator appends the period check last, after the type checks.
web_validation_errors(d) ==
    RequiredErrors(d, web_required_fields)
    \o web_estimate_errors(d)
    \o web_goods_errors(d)
    \o web_service_errors(d)
    \o web_period_errors(d)

web_validate_input(d) ==
    LET errors == web_validation_errors(d)
    IN  [op |-> "web_validate_input", ok |-> Len(errors) = 0, errors |-> errors]

---------------------------------------------------------------------------
(* The front-ends: validate, then generate *)

\* BQCGeneratorApp.generate_document: a warning with every error and an
\* early return when validation fails, otherwise the generator is called.
generate_document(d) ==
    LET v == validate_input(d)
    IN  IF ~v.ok
        THEN [op |-> "generate_document",
              is_valid |-> FALSE,
              reported |-> v.errors,
              generator_called |-> FALSE,
              document |-> [op |-> "none", ok |-> FALSE]]
        ELSE [op |-> "generate_document",
              is_valid |-> TRUE,
              reported |-> <<>>,
              generator_called |-> TRUE,
              document |-> generate_bqc_document(d)]

\* The submit branch of main(), on the data the form block has stored in
\* this run.  The top of the page has
\* already listed the errors that session_state.form_errors held when the run
\* began (shown); the submit branch then stores the new errors there and runs
\* the generator only if is_valid.  The page is not rerun after the branch.
web_submit(d, shown) ==
    LET v == web_validate_input(d)
    IN  IF ~v.ok
        THEN [op |-> "web_submit",
              is_valid |-> FALSE,
              reported |-> shown,
              form_errors |-> v.errors,
              generator_called |-> FALSE,
              document |-> [op |-> "none", ok |-> FALSE]]
        ELSE [op |-> "web_submit",
              is_valid |-> TRUE,
              reported |-> shown,
              form_errors |-> v.errors,
              generator_called |-> TRUE,
              document |-> web_generate_bqc_document(d)]

---------------------------------------------------------------------------
(* The window, the database and the login dialog after start-up *)

\* The figures on the labels as setup_scope_tab, setup_bqc_tab and
\* setup_other_tab create them: zero amounts, no experience options yet.
InitialLabels ==
    [annualized_value |-> Frac(0, 1),
     base_percentage |-> 0,
     turnover_requirement |-> 0,
     emd_amount |-> 0,
     experience_written |-> FALSE,
     option_values |-> [a |-> 0, b |-> 0, c |-> 0]]

\* hash_password: the SHA-256 hex digest, a value determined by the password
\* and different from every password.
hash_password(password) == <<"sha256", password>>

\* The tables after setup_database and the registration of two users.
InitialDatabase ==
    [users |-> {[id |-> 1, username |-> <<"amy">>,
                 password |-> hash_password("secret1")],
                [id |-> 2, username |-> <<"bob">>,
                 password |-> hash_password("secret2")]},
     bqc_data |-> <<>>]

\* The login dialog before any attempt: LoginDialog.__init__.
LoginOpen == [dialog |-> "open", user_id |-> 0, window |-> 0]

\* An accepted login of the user and the main window created for them.
LoggedIn(user_id) ==
    [dialog |-> "accepted", user_id |-> user_id, window |-> user_id]

\* No LoadDataDialog is open.
NoLoadDialog == [open |-> FALSE, ids |-> {}]

\* The main window exists and is not waiting in the exec_() of its
\* LoadDataDialog, which is modal.
window_active == login.window # 0 /\ ~load_dialog.open

---------------------------------------------------------------------------
(* LoginDialog, RegistrationDialog and __main__ *)

\* A line of text is a sequence of words and blanks (" ").
RECURSIVE StripLeft(_)
StripLeft(text) ==
    IF text # <<>> /\ Head(text) = " " THEN StripLeft(Tail(text)) ELSE text

RECURSIVE StripRight(_)
StripRight(text) ==
    IF text # <<>> /\ text[Len(text)] = " "
    THEN StripRight(SubSeq(text, 1, Len(text) - 1))
    ELSE text

\* str.strip()
strip(text) == StripRight(StripLeft(text))

\* Variant of login_accept that accepts a known user whatever the password.
login_accept_any_password(users, typed, password, db_ok) ==
    LET username == strip(typed)
        result == {u \in users : u.username = username}
        refuse(message) == [op |-> "login_accept", username |-> typed,
                            password |-> password, db_ok |-> db_ok,
                            accepted |-> FALSE, user_id |-> 0,
                            message |-> message]
    IN  IF username = <<>> \/ password = ""
        THEN refuse("Please enter both username and password")
        ELSE IF ~db_ok THEN refuse("Database error occurred")
        ELSE IF result = {} THEN refuse("User not found")
        ELSE [op |-> "login_accept", username |-> typed,
              password |-> password, db_ok |-> db_ok,
              accepted |-> TRUE,
              user_id |-> (CHOOSE u \in result : TRUE).id,
              message |-> ""]

\* LoginDialog.accept: the dialog is accepted, with the user's id, only if
\* the stripped username has a row and the stored digest is that of the
\* entered password; every other path shows a message and returns.
login_accept(users, typed, password, db_ok) ==
    LET username == strip(typed)
        result == {u \in users : u.username = username}
        refuse(message) == [op |-> "login_accept", username |-> typed,
                            password |-> password, db_ok |-> db_ok,
                            accepted |-> FALSE, user_id |-> 0,
                            message |-> message]
    IN  IF username = <<>> \/ password = ""
        THEN refuse("Please enter both username and password")
        ELSE IF ~db_ok THEN refuse("Database error occurred")
        ELSE IF result = {} THEN refuse("User not found")
        ELSE LET user == CHOOSE u \in result : TRUE
             IN  IF user.password = hash_password(password)
                 THEN [op |-> "login_accept", username |-> typed,
                       password |-> password, db_ok |-> db_ok,
                       accepted |-> TRUE, user_id |-> user.id,
                       message |-> ""]
                 ELSE refuse("Invalid password")

\* The id AUTOINCREMENT gives the next row of a table.
NextId(table) ==
    IF table = {} THEN 1
    ELSE (CHOOSE r \in table : \A q \in table : q.id <= r.id).id + 1

\* RegistrationDialog.accept: the users table after the attempt.  complete
\* says that email and full name are filled in, confirmed that the two
\* password inputs are equal.
registration_accept(users, typed, password, confirmed, complete, db_ok) ==
    LET username == strip(typed)
    IN  IF username = <<>> \/ password = "" \/ ~complete THEN users
        ELSE IF ~confirmed THEN users
        ELSE IF Len(password) < 6 THEN users
        ELSE IF ~db_ok THEN users
        ELSE IF \E u \in users : u.username = username THEN users
        ELSE users \cup {[id |-> NextId(users), username |-> username,
                          password |-> hash_password(password)]}

---------------------------------------------------------------------------
(* BQCGeneratorApp.save_data, LoadDataDialog and BQCGeneratorApp.load_data *)

\* The keys of self.data that have a column in bqc_data.
StoredFields ==
    {"ref_number", "item_name", "project_name", "tender_description",
     "pr_reference", "tender_type", "cec_estimate_incl_gst",
     "cec_estimate_excl_gst", "budget_details", "scope_of_work",
     "contract_period_years", "delivery_period", "warranty_period",
     "supplying_capacity", "mse_relaxation", "similar_work_definition",
     "annualized_value", "divisibility", "performance_security",
     "amc_value", "has_amc", "correction_factor"}

\* The columns save_data passes through sanitize_value.
SanitizedFields ==
    {"item_name", "project_name", "tender_description", "pr_reference",
     "tender_type", "budget_details", "scope_of_work", "delivery_period",
     "warranty_period", "similar_work_definition", "divisibility"}

\* sanitize_value: None and blank strings become "NA".
sanitize_value(value) == IF value \in {"", " "} THEN "NA" ELSE value

\* The dictionary db_data save_data builds from self.data (with ref_number,
\* which is bound next to it).
db_data(d) ==
    [f \in StoredFields |->
        IF f \in SanitizedFields THEN sanitize_value(d[f]) ELSE d[f]]

\* SELECT id FROM bqc_data WHERE user_id = ? AND ref_number = ?: the
\* positions of the matching rows.
existing_record(rows, user_id, ref_number) ==
    {i \in 1 .. Len(rows) : /\ rows[i].user_id = user_id
                            /\ rows[i].record.ref_number = ref_number}

\* Variant of save_data that inserts a row on every save.
save_data_insert_only(rows, user_id, d) ==
    IF d.ref_number = "" THEN rows
    ELSE Append(rows, [id |-> Len(rows) + 1, user_id |-> user_id,
                       record |-> db_data(d)])

\* save_data: the rows of bqc_data after Save Data for the logged-in user.
\* Nothing is written without a reference number; the row fetchone returns
\* for (user_id, ref_number) is updated by id, else a row is inserted with
\* the next AUTOINCREMENT id.
save_data(rows, user_id, d) ==
    LET existing == existing_record(rows, user_id, d.ref_number)
    IN  IF d.ref_number = "" THEN rows
        ELSE IF existing # {}
        THEN LET i == CHOOSE i \in existing : \A j \in existing : i <= j
             IN  [rows EXCEPT ![i].record = db_data(d)]
        ELSE Append(rows, [id |-> Len(rows) + 1, user_id |-> user_id,
                           record |-> db_data(d)])

\* Variant of load_saved_data that lists the rows of every user.
load_saved_data_all_users(rows, user_id) ==
    {rows[i].id : i \in 1 .. Len(rows)}

\* LoadDataDialog.load_saved_data: the ids offered to the user, those of the
\* rows WHERE user_id = ?.
load_saved_data(rows, user_id) ==
    {rows[i].id : i \in {j \in 1 .. Len(rows) : rows[j].user_id = user_id}}

\* SELECT * FROM bqc_data WHERE id = ?
record_by_id(rows, id) ==
    rows[CHOOSE i \in 1 .. Len(rows) : rows[i].id = id]

\* The assignments self.data[key] = record_dict[key] or default.
loaded_value(f, value) ==
    CASE f = "supplying_capacity" -> IF value = 0 THEN 30 ELSE value
      [] f = "performance_security" -> IF value = 0 THEN 5 ELSE value
      [] OTHER -> value

\* load_data: self.data after the record was loaded into a window whose form
\* held prior.  The fields come from the row; setCurrentText on the
\* tender-type combo box runs update_tender_type when the type differs from
\* the one shown, with the performance-security spin box still showing the
\* prior value: a change of the spin box stores the default of the type over
\* the loaded value, and without a change the loaded value stays; the later
\* setValue(self.data['performance_security']) then writes the record's
\* value back.  The closing update_calculated_values stores the annualized
\* value.
load_data(record, prior) ==
    LET d1 == [f \in DOMAIN prior |->
                  IF f \in StoredFields THEN loaded_value(f, record[f])
                  ELSE prior[f]]
        d2 == IF d1.tender_type # prior.tender_type
              THEN update_tender_type_data(d1, prior.performance_security,
                                           d1.tender_type)
              ELSE d1
    IN  recalculated(d2)

---------------------------------------------------------------------------
(* Inputs *)

\* Largest supplying capacity base tried (the spin box allows 0..1000).
MaxCapacity == 50

\* Estimates tried around each EMD threshold: threshold - EmdDelta ..
\* threshold + EmdDelta, in hundredths of a Lakh.
EmdDelta == 1

\* Largest contract period in months tried.
MaxMonths == 12

\* Upper end of the correction factor spin box, setRange(0, 1).
MaxFactor == 1 * Scale

Money == {0, 75 * Scale, 1000 * Scale, 1100 * Scale}

AmcValues == {0, 50 * Scale, 1200 * Scale}

Factors == {0, 20, 25, MaxFactor}

Years == {-1 * Scale, 0, 10, 1 * Scale, 250, 20 * Scale}

Months == -1 .. MaxMonths

\* Range of the performance-security spin box, setRange(0, 20).
MaxPerformanceSecurity == 20

PerformancePercents == 0 .. MaxPerformanceSecurity

SuppliedAnnualized == {Frac(0, 1), Frac(500, 1)}

EmdEstimates ==
    {0, 40 * Scale, 75 * Scale, 300 * Scale, 3000 * Scale}
    \cup {EMD_THRESHOLDS[i][1] + k :
            i \in 1 .. Len(EMD_THRESHOLDS) - 1, k \in -EmdDelta .. EmdDelta}

\* Largest number of text fields left empty at once in a validation record.
MaxEmpty == 1

\* The text fields the validators read.
TextFields ==
    {"ref_number", "item_name", "project_name", "tender_description",
     "pr_reference", "budget_details", "scope_of_work", "contract_period",
     "delivery_period", "warranty_period", "similar_work_definition"}

\* Pairs of text fields left empty together: two required fields, and a
\* required field with a field that only Goods tenders need.
MissingPairs ==
    {{"ref_number", "tender_description"}, {"scope_of_work", "delivery_period"}}

\* (contract_period_years, contract_period_months, annualized_value)
PeriodCases ==
    {<<1 * Scale, 12, Frac(0, 1)>>, <<0, 0, Frac(0, 1)>>,
     <<1 * Scale, 0, Frac(500, 1)>>, <<0, 12, Frac(0, 1)>>}

\* (cec_estimate_incl_gst, cec_estimate_excl_gst)
ValidationEstimates ==
    {<<1100 * Scale, 1000 * Scale>>, <<0, 0>>,
     <<1000 * Scale, 1100 * Scale>>, <<0, 1000 * Scale>>}

\* Largest number of rows of the users table.
MaxUsers == 3

\* What is typed into a username input.
TypedUsernames ==
    {<<>>, <<" ">>, <<"amy">>, <<" ", "amy", " ">>, <<"bob">>, <<"cat">>}

\* What is typed into a password input.
TypedPasswords == {"", "secret1", "secret2", "short"}

\* Values entered into the spin boxes of the main window, by data key.
SpinValues ==
    [cec_estimate_incl_gst |-> {0, 1100 * Scale},
     cec_estimate_excl_gst |-> {0, 1000 * Scale},
     amc_value |-> {0, 50 * Scale},
     correction_factor |-> {0, 20},
     performance_security |-> {5, 10}]

\* Values entered into the contract-period spin box, setRange(0.1, 20).
PeriodValues == {10, 1 * Scale, 250}

\* The text inputs of the main window connected to update_data under a key
\* the validator reads.
TextInputs ==
    {"ref_number", "tender_description", "pr_reference", "budget_details",
     "scope_of_work", "delivery_period", "warranty_period",
     "similar_work_definition"}

\* Values the performance-security spin box shows when load_data raises the
\* tender-type event: the two defaults the handler sets.
ShownValues == {5, 10}

\* Inputs connected to update_data whose key the record of the model does
\* not carry.
OtherInputs ==
    {"tender_platform", "amc_period", "payment_terms", "escalation_clause",
     "additional_details", "proposed_by", "recommended_by", "concurred_by",
     "approved_by"}

\* Largest number of rows of the bqc_data table.
MaxRows == 2

\* What is typed into the reference-number input.
RefNumbers == {"", "R1", "R2"}

\* self.data as set by BQCGeneratorApp.__init__ (with the web variant's
\* contract_period_months of initialize_session_state).
DefaultData ==
    [tender_type |-> "Goods",
     cec_estimate_incl_gst |-> 0,
     cec_estimate_excl_gst |-> 0,
     contract_period_years |-> 1 * Scale,
     contract_period_months |-> 0,
     supplying_capacity |-> 30,
     mse_relaxation |-> FALSE,
     annualized_value |-> Frac(0, 1),
     divisibility |-> "Non-Divisible",
     amc_value |-> 0,
     has_amc |-> FALSE,
     correction_factor |-> 0,
     performance_security |-> 5,
     ref_number |-> "",
     item_name |-> "",
     project_name |-> "",
     tender_description |-> "",
     pr_reference |-> "",
     budget_details |-> "",
     scope_of_work |-> "",
     contract_period |-> "",
     delivery_period |-> "",
     warranty_period |-> "",
     similar_work_definition |-> ""]

\* BQCGeneratorApp.clear_form: self.data is replaced by the default
\* dictionary; the widgets are then set from it, and the handlers they fire
\* (update_tender_type, update_data, update_supplying_capacity) store the
\* same default values; update_calculated_values stores the quotient of the
\* default estimate by the default period.
clear_form(d) ==
    LET d1 == update_tender_type_data(DefaultData, d.performance_security,
                                      DefaultData.tender_type)
        d2 == [d1 EXCEPT !.performance_security =
                             DefaultData.performance_security]
    IN  [d2 EXCEPT !.annualized_value = preview_annualized(d2).stored]

\* clear_form of earth_engine.py: initialize_session_state fills only the
\* keys that are missing from the session, so the data of a running session
\* is left as it is; document_generated and form_errors are reset.
web_clear_form(d) == d

\* Records that vary the fields the turnover and experience figures read.
FinancialRecords ==
    {[DefaultData EXCEPT !.tender_type = t,
                         !.cec_estimate_incl_gst = i,
                         !.cec_estimate_excl_gst = e,
                         !.has_amc = h,
                         !.amc_value = a,
                         !.divisibility = dv,
                         !.correction_factor = c] :
        t \in TENDER_TYPES, i \in Money, e \in Money, h \in BOOLEAN,
        a \in AmcValues, dv \in DIVISIBILITY_OPTIONS, c \in Factors}

\* Records that vary the fields the EMD lookup reads.
EmdRecords ==
    {[DefaultData EXCEPT !.tender_type = t,
                         !.cec_estimate_excl_gst = e,
                         !.cec_estimate_incl_gst = e] :
        t \in TENDER_TYPES, e \in EmdEstimates}

\* Records that vary the fields the annualized value reads.
PeriodRecords ==
    {[DefaultData EXCEPT !.cec_estimate_excl_gst = e,
                         !.cec_estimate_incl_gst = e,
                         !.contract_period_years = y,
                         !.contract_period_months = m,
                         !.annualized_value = v] :
        e \in {0, 1000 * Scale}, y \in Years, m \in Months,
        v \in SuppliedAnnualized}

\* Records that vary the fields the supplying capacity reads.
CapacityRecords ==
    {[DefaultData EXCEPT !.tender_type = t,
                         !.supplying_capacity = b,
                         !.mse_relaxation = r] :
        t \in TENDER_TYPES, b \in 0 .. MaxCapacity, r \in BOOLEAN}

\* Records that vary the fields the performance-security paragraph reads.
PerformanceRecords ==
    {[DefaultData EXCEPT !.tender_type = t,
                         !.performance_security = p] :
        t \in TENDER_TYPES, p \in PerformancePercents}

\* Complete records with consistent estimates that vary the maintenance
\* fields.
MaintenanceRecords ==
    {[f \in DOMAIN DefaultData |->
        IF f \in TextFields THEN "x"
        ELSE [DefaultData EXCEPT !.tender_type = t,
                                 !.cec_estimate_incl_gst = 1100 * Scale,
                                 !.cec_estimate_excl_gst = 1000 * Scale,
                                 !.has_amc = h,
                                 !.amc_value = a,
                                 !.divisibility = dv][f]] :
        t \in TENDER_TYPES, h \in BOOLEAN, a \in AmcValues,
        dv \in DIVISIBILITY_OPTIONS}

\* d with the text fields in empty set to '' and the others filled in.
WithTexts(d, empty) ==
    [f \in DOMAIN d |->
        IF f \in TextFields
        THEN IF f \in empty THEN "" ELSE "x"
        ELSE d[f]]

\* The forms that are saved first: the start-up form with a reference
\* number typed in and a tender type chosen.
RoundTripRecords ==
    {update_tender_type_data([DefaultData EXCEPT !.ref_number = r],
                             DefaultData.performance_security, t) :
        r \in RefNumbers \ {""}, t \in TENDER_TYPES}

\* Records that vary the fields the validators read.
ValidationRecords ==
    {WithTexts([DefaultData EXCEPT !.tender_type = t,
                                   !.cec_estimate_incl_gst = e[1],
                                   !.cec_estimate_excl_gst = e[2],
                                   !.contract_period_years = p[1],
                                   !.contract_period_months = p[2],
                                   !.annualized_value = p[3]],
               empty) :
        t \in TENDER_TYPES, e \in ValidationEstimates, p \in PeriodCases,
        empty \in {x \in SUBSET TextFields : Cardinality(x) <= MaxEmpty}
                  \cup MissingPairs}

Records ==
    FinancialRecords \cup EmdRecords \cup PeriodRecords \cup CapacityRecords
    \cup PerformanceRecords \cup ValidationRecords \cup MaintenanceRecords

---------------------------------------------------------------------------
(* State machine: a record, and the result of the last call made on it *)

Init ==
    /\ data \in Records
    /\ out = [op |-> "none"]
    /\ form_errors = <<>>
    /\ labels = InitialLabels
    /\ db = InitialDatabase
    /\ login = LoggedIn(1)
    /\ load_dialog = NoLoadDialog

\* calculate_emd(data['cec_estimate_excl_gst'], data['tender_type'])
CalculateEmd ==
    /\ out' = [op |-> "calculate_emd",
               estimated_value |-> data.cec_estimate_excl_gst,
               tender_type |-> data.tender_type,
               emd |-> calculate_emd(data.cec_estimate_excl_gst, data.tender_type)]
    /\ UNCHANGED <<data, form_errors, labels, environment>>

WebCalculateEmd ==
    /\ out' = [op |-> "web_calculate_emd",
               estimated_value |-> data.cec_estimate_excl_gst,
               tender_type |-> data.tender_type,
               emd |-> web_calculate_emd(data.cec_estimate_excl_gst, data.tender_type)]
    /\ UNCHANGED <<data, form_errors, labels, environment>>

\* Variant of GenerateBqcDocument in which the generator replaces the
\* requested performance security of its argument by the standard one.
GenerateBqcDocument_in_place ==
    /\ out' = generate_bqc_document(data)
    /\ data' = [data EXCEPT !.performance_security = standard_ps(data)]
    /\ UNCHANGED <<form_errors, labels, environment>>

GenerateBqcDocument ==
    /\ out' = generate_bqc_document(data)
    /\ UNCHANGED <<data, form_errors, labels, environment>>

WebGenerateBqcDocument ==
    /\ out' = web_generate_bqc_document(data)
    /\ UNCHANGED <<data, form_errors, labels, environment>>

\* The handler stores the quotient in self.data['annualized_value'].
UpdateCalculatedValues ==
    /\ window_active
    /\ out' = update_calculated_values(data)
    /\ data' = [data EXCEPT !.annualized_value = preview_annualized(data).stored]
    /\ labels' = written_labels(labels, data)
    /\ UNCHANGED <<form_errors, environment>>

\* update_supplying_capacity(value), from valueChanged of the capacity spin
\* box or called with the stored value: stores the base, writes the capacity
\* label, then runs update_calculated_values.
UpdateSupplyingCapacity ==
    \E value \in 0 .. MaxCapacity :
        /\ window_active
        /\ out' = update_supplying_capacity(data, value)
        /\ data' = recalculated([data EXCEPT !.supplying_capacity = value])
        /\ labels' = written_labels(labels,
                        [data EXCEPT !.supplying_capacity = value])
        /\ UNCHANGED <<form_errors, environment>>

\* stateChanged of the MSE relaxation check box.
UpdateMseRelaxation ==
    \E state \in BOOLEAN :
        /\ window_active
        /\ out' = update_mse_relaxation(data, state)
        /\ data' = recalculated([data EXCEPT !.mse_relaxation = state])
        /\ labels' = written_labels(labels,
                        [data EXCEPT !.mse_relaxation = state])
        /\ UNCHANGED <<form_errors, environment>>

ValidateInput ==
    /\ out' = validate_input(data)
    /\ UNCHANGED <<data, form_errors, labels, environment>>

WebValidateInput ==
    /\ out' = web_validate_input(data)
    /\ UNCHANGED <<data, form_errors, labels, environment>>

\* The Generate button of the desktop window.
GenerateDocument ==
    /\ window_active
    /\ out' = generate_document(data)
    /\ UNCHANGED <<data, form_errors, labels, environment>>

\* The value a form widget returns in a run of main(): what the user has
\* put into it (changed), otherwise the default the code passes to it.
widget(changed, key, default) ==
    IF key \in DOMAIN changed THEN changed[key] ELSE default

\* The form block of main(): every widget's value is stored in the session
\* data, in the order of the page.  The tender-type select box (index=0)
\* comes after the first text inputs: when it differs from the stored type
\* the type is stored and st.rerun() ends the run.  The delivery, warranty,
\* capacity and MSE widgets exist only for Goods, the similar-work text area
\* only for the other types; the performance-security input starts from
\* default_ps, 5 for 'Goods' and 'Services' and 10 otherwise.  Each key is written by its own widget only, so
\* the stores are independent but for the annualized value, which reads the
\* estimate and the months stored just before it.
web_form(d, tender_type, changed) ==
    LET w(key) == widget(changed, key, d[key])
        goods == d.tender_type = "Goods"
    IN  IF tender_type # d.tender_type
        THEN [rerun |-> TRUE,
              data |-> [d EXCEPT
                  !.ref_number = w("ref_number"),
                  !.item_name = w("item_name"),
                  !.project_name = w("project_name"),
                  !.tender_description = w("tender_description"),
                  !.pr_reference = w("pr_reference"),
                  !.tender_type = tender_type]]
        ELSE [rerun |-> FALSE,
              data |-> [d EXCEPT
                  !.ref_number = w("ref_number"),
                  !.item_name = w("item_name"),
                  !.project_name = w("project_name"),
                  !.tender_description = w("tender_description"),
                  !.pr_reference = w("pr_reference"),
                  !.cec_estimate_incl_gst = w("cec_estimate_incl_gst"),
                  !.cec_estimate_excl_gst = w("cec_estimate_excl_gst"),
                  !.budget_details = w("budget_details"),
                  !.scope_of_work = w("scope_of_work"),
                  !.contract_period = w("contract_period"),
                  !.contract_period_months = w("contract_period_months"),
                  !.delivery_period =
                      IF goods THEN w("delivery_period") ELSE @,
                  !.warranty_period =
                      IF goods THEN w("warranty_period") ELSE @,
                  !.annualized_value =
                      web_main_annualized(
                          [d EXCEPT
                              !.cec_estimate_excl_gst =
                                  w("cec_estimate_excl_gst"),
                              !.contract_period_months =
                                  w("contract_period_months")],
                          w("annualized_value")).value,
                  !.supplying_capacity =
                      IF goods THEN w("supplying_capacity") ELSE @,
                  !.mse_relaxation =
                      IF goods THEN w("mse_relaxation") ELSE @,
                  !.similar_work_definition =
                      IF goods THEN @ ELSE w("similar_work_definition"),
                  !.divisibility =
                      widget(changed, "divisibility", "Non-Divisible"),
                  !.performance_security =
                      widget(changed, "performance_security",
                             IF d.tender_type \in {"Goods", "Services"}
                             THEN 5 ELSE 10)]]

\* main() after the form block: clear_form() if Clear All Form was
\* pressed, then the submit branch if Generate Document was.  shown is
\* session_state.form_errors at the start of the run, which the top of the
\* page has listed.
web_buttons(form, shown, tender_type, clear, submitted) ==
    IF form.rerun
    THEN [data |-> form.data, form_errors |-> shown,
          out |-> [op |-> "web_rerun", tender_type |-> tender_type]]
    ELSE IF submitted
    THEN [data |-> IF clear THEN web_clear_form(form.data) ELSE form.data,
          form_errors |-> web_submit(form.data, shown).form_errors,
          out |-> web_submit(form.data, shown)]
    ELSE IF clear
    THEN [data |-> web_clear_form(form.data), form_errors |-> <<>>,
          out |-> [op |-> "web_clear_form", document_generated |-> FALSE]]
    ELSE [data |-> form.data, form_errors |-> shown,
          out |-> web_main_preview(form.data, form.data.annualized_value)]

\* One run of main().
main(d, shown, tender_type, changed, clear, submitted) ==
    CHOOSE run \in {web_buttons(form, shown, tender_type, clear, submitted) :
                       form \in {web_form(d, tender_type, changed)}} : TRUE

\* The whole form filled in: every text, consistent estimates, a period.
CompleteForm ==
    [k \in {"ref_number", "item_name", "project_name", "tender_description",
            "pr_reference", "budget_details", "scope_of_work",
            "contract_period", "delivery_period", "warranty_period",
            "similar_work_definition"} |-> "x"]
    @@ ("cec_estimate_incl_gst" :> 1100 * Scale)
    @@ ("cec_estimate_excl_gst" :> 1000 * Scale)
    @@ ("contract_period_months" :> 12)

\* What the user has put into the widgets before a run: nothing, one
\* widget, or the whole form.
WebChanges ==
    <<
      <<>>,
      CompleteForm,
      "cec_estimate_excl_gst" :> 75 * Scale,
      "annualized_value" :> Frac(500, 1),
      "supplying_capacity" :> 50,
      "mse_relaxation" :> TRUE,
      "mse_relaxation" :> FALSE,
      "similar_work_definition" :> "bridges"
    >>

\* A run of main() with Generate Document pressed.
WebSubmit ==
    \E tender_type \in TENDER_TYPES, i \in DOMAIN WebChanges :
        \E run \in {main(data, form_errors, tender_type, WebChanges[i],
                         FALSE, TRUE)} :
            /\ data' = run.data
            /\ form_errors' = run.form_errors
            /\ out' = run.out
            /\ UNCHANGED <<labels, environment>>

\* The Clear button of the desktop window.
ClearForm ==
    /\ window_active
    /\ data' = clear_form(data)
    /\ out' = [op |-> "clear_form",
               calculated |-> update_calculated_values(clear_form(data))]
    /\ labels' = written_labels(labels, clear_form(data))
    /\ UNCHANGED <<form_errors, environment>>

\* A run of main() with the Clear All Form button pressed.
WebClearForm ==
    \E tender_type \in TENDER_TYPES, i \in DOMAIN WebChanges :
        \E run \in {main(data, form_errors, tender_type, WebChanges[i],
                         TRUE, FALSE)} :
            /\ data' = run.data
            /\ form_errors' = run.form_errors
            /\ out' = run.out
            /\ UNCHANGED <<labels, environment>>

\* The tender-type combo box changes to text: by the user, with the spin
\* box showing the record's value, or inside load_data, with the spin box
\* showing what the form held before.
UpdateTenderType ==
    \E text \in TENDER_TYPES :
        \E shown \in {data.performance_security} \cup ShownValues :
            /\ window_active
            /\ out' = update_tender_type(data, shown, text)
            /\ data' = update_tender_type_data(data, shown, text)
            /\ labels' = IF update_tender_type(data, shown, text).recalculated
                         THEN written_labels(labels,
                                  update_tender_type_data(data, shown, text))
                         ELSE labels
            /\ UNCHANGED <<form_errors, environment>>

\* A run of main() with no button pressed.
WebMain ==
    \E tender_type \in TENDER_TYPES, i \in DOMAIN WebChanges :
        \E run \in {main(data, form_errors, tender_type, WebChanges[i],
                         FALSE, FALSE)} :
            /\ data' = run.data
            /\ form_errors' = run.form_errors
            /\ out' = run.out
            /\ UNCHANGED <<labels, environment>>

\* valueChanged of a spin box connected to update_data.  The AMC value box
\* is shown only while has_amc is set (update_amc_visibility), the
\* correction-factor box only for Divisible (update_divisibility).
OnValueChanged ==
    /\ window_active
    /\ \E key \in DOMAIN SpinValues :
        \E value \in SpinValues[key] :
            /\ value # data[key]
            /\ key = "amc_value" => data.has_amc
            /\ key = "correction_factor" => data.divisibility = "Divisible"
            /\ data' = recalculated([data EXCEPT ![key] = value])
            /\ labels' = written_labels(labels, [data EXCEPT ![key] = value])
            /\ out' = [op |-> "field_change", handler |-> "update_data"]
            /\ UNCHANGED <<form_errors, environment>>

\* valueChanged of the contract-period spin box.
OnContractPeriodYearsChanged ==
    /\ window_active
    /\ \E value \in PeriodValues :
        /\ value # data.contract_period_years
        /\ data' = recalculated([data EXCEPT !.contract_period_years = value])
        /\ labels' = written_labels(labels,
                        [data EXCEPT !.contract_period_years = value])
        /\ out' = [op |-> "field_change",
                   handler |-> "update_contract_period_years"]
        /\ UNCHANGED <<form_errors, environment>>

\* currentTextChanged of the tender-type combo box: the labels are rewritten
\* only through valueChanged of the performance-security spin box.
OnTenderTypeChanged ==
    /\ window_active
    /\ \E text \in TENDER_TYPES :
        /\ text # data.tender_type
        /\ data' = update_tender_type_data(data, data.performance_security,
                                           text)
        /\ labels' = IF update_tender_type(data, data.performance_security,
                                           text).recalculated
                     THEN written_labels(labels,
                              update_tender_type_data(
                                  data, data.performance_security, text))
                     ELSE labels
        /\ out' = [op |-> "field_change", handler |-> "update_tender_type"]
        /\ UNCHANGED <<form_errors, environment>>

\* stateChanged of the AMC check box: update_has_amc stores the flag and
\* updates the visibility of the AMC inputs.
OnHasAmcStateChanged ==
    /\ window_active
    /\ data' = [data EXCEPT !.has_amc = ~data.has_amc]
    /\ out' = [op |-> "field_change", handler |-> "update_has_amc"]
    /\ UNCHANGED <<form_errors, labels, environment>>

\* currentTextChanged of the divisibility combo box.
OnDivisibilityChanged ==
    /\ window_active
    /\ \E text \in DIVISIBILITY_OPTIONS :
        /\ text # data.divisibility
        /\ data' = recalculated([data EXCEPT !.divisibility = text])
        /\ labels' = written_labels(labels,
                        [data EXCEPT !.divisibility = text])
        /\ out' = [op |-> "field_change", handler |-> "update_divisibility"]
        /\ UNCHANGED <<form_errors, environment>>

\* textChanged of the reference-number input, connected to update_data.
OnRefNumberChanged ==
    /\ window_active
    /\ \E text \in RefNumbers :
        /\ text # data.ref_number
        /\ data' = recalculated([data EXCEPT !.ref_number = text])
        /\ labels' = written_labels(labels, [data EXCEPT !.ref_number = text])
        /\ out' = [op |-> "field_change", handler |-> "update_data"]
        /\ UNCHANGED <<form_errors, environment>>

\* textChanged of the other text inputs of the window, connected to
\* update_data.
OnTextChanged ==
    /\ window_active
    /\ \E key \in TextInputs \ {"ref_number"}, text \in {"", "x"} :
        /\ text # data[key]
        /\ data' = recalculated([data EXCEPT ![key] = text])
        /\ labels' = written_labels(labels, [data EXCEPT ![key] = text])
        /\ out' = [op |-> "field_change", handler |-> "update_data"]
        /\ UNCHANGED <<form_errors, environment>>

\* An input of OtherInputs changes: update_data stores the value under a key
\* the model does not carry, so the record of the model is as before, and
\* update_calculated_values runs.
OnOtherInputChanged ==
    /\ window_active
    /\ OtherInputs # {}
    /\ data' = recalculated(data)
    /\ labels' = written_labels(labels, data)
    /\ out' = [op |-> "field_change", handler |-> "update_data"]
    /\ UNCHANGED <<form_errors, environment>>

\* The Save Data button.
SaveData ==
    /\ window_active
    /\ (data.ref_number # ""
          /\ existing_record(db.bqc_data, login.window, data.ref_number) = {})
       => Len(db.bqc_data) < MaxRows
    /\ db' = [db EXCEPT !.bqc_data = save_data(@, login.window, data)]
    /\ out' = [op |-> "save_data",
               saved |-> data.ref_number # "",
               replaced |-> existing_record(db.bqc_data, login.window,
                                            data.ref_number) # {},
               user_id |-> login.window,
               record |-> db_data(data)]
    /\ UNCHANGED <<data, form_errors, labels, login, load_dialog>>

\* The Load Data button: load_data builds the LoadDataDialog, which lists the
\* rows of the user, and waits in its exec_().
OpenLoadDialog ==
    /\ window_active
    /\ load_dialog' = [open |-> TRUE,
                       ids |-> load_saved_data(db.bqc_data, login.window)]
    /\ out' = [op |-> "load_saved_data", user_id |-> login.window,
               ids |-> load_saved_data(db.bqc_data, login.window)]
    /\ UNCHANGED <<data, form_errors, labels, db, login>>

\* A listed row is picked and the dialog accepted: load_data reads the row
\* by its id from the table as it is now and writes the form.
LoadData ==
    /\ load_dialog.open
    /\ \E id \in load_dialog.ids :
          LET row == record_by_id(db.bqc_data, id)
          IN  /\ data' = load_data(row.record, data)
              /\ labels' = written_labels(labels, load_data(row.record, data))
              /\ out' = [op |-> "load_data", id |-> id, row |-> row]
    /\ load_dialog' = NoLoadDialog
    /\ UNCHANGED <<form_errors, db, login>>

\* Cancel in the LoadDataDialog: load_data returns without reading a row.
CancelLoadDialog ==
    /\ load_dialog.open
    /\ load_dialog' = NoLoadDialog
    /\ out' = [op |-> "load_data_cancelled"]
    /\ UNCHANGED <<data, form_errors, labels, db, login>>

\* The main window is closed and the application started again.
CloseWindow ==
    /\ window_active
    /\ login' = LoginOpen
    /\ data' = DefaultData
    /\ labels' = InitialLabels
    /\ out' = [op |-> "none"]
    /\ UNCHANGED <<form_errors, db, load_dialog>>

\* OK in the login dialog.
LoginAccept ==
    /\ login.dialog = "open"
    /\ \E typed \in TypedUsernames, password \in TypedPasswords,
          db_ok \in BOOLEAN :
          LET result == login_accept(db.users, typed, password, db_ok)
          IN  /\ out' = result
              /\ login' = IF result.accepted
                          THEN [login EXCEPT !.dialog = "accepted",
                                             !.user_id = result.user_id]
                          ELSE login
    /\ UNCHANGED <<data, form_errors, labels, db, load_dialog>>

\* Cancel in the login dialog: the application exits.
LoginReject ==
    /\ login.dialog = "open"
    /\ login' = [login EXCEPT !.dialog = "rejected"]
    /\ out' = [op |-> "login_reject"]
    /\ UNCHANGED <<data, form_errors, labels, db, load_dialog>>

\* Register New User in the login dialog, then OK in the registration dialog.
RegisterUser ==
    /\ login.dialog = "open"
    /\ Cardinality(db.users) < MaxUsers
    /\ \E typed \in TypedUsernames, password \in TypedPasswords,
          confirmed \in BOOLEAN, complete \in BOOLEAN, db_ok \in BOOLEAN :
          LET users == registration_accept(db.users, typed, password,
                                           confirmed, complete, db_ok)
          IN  /\ db' = [db EXCEPT !.users = users]
              /\ out' = [op |-> "registration_accept",
                         accepted |-> users # db.users]
    /\ UNCHANGED <<data, form_errors, labels, login, load_dialog>>

\* __main__: the main window is created after login_dialog.exec_() returned
\* Accepted, with login_dialog.user_id.
OpenMainWindow ==
    /\ login.dialog = "accepted"
    /\ login.window = 0
    /\ login' = [login EXCEPT !.window = login.user_id]
    /\ data' = DefaultData
    /\ labels' = InitialLabels
    /\ out' = [op |-> "main_window", user_id |-> login.user_id]
    /\ UNCHANGED <<form_errors, db, load_dialog>>

Next ==
    \/ CalculateEmd
    \/ WebCalculateEmd
    \/ GenerateBqcDocument
    \/ WebGenerateBqcDocument
    \/ UpdateCalculatedValues
    \/ UpdateTenderType
    \/ ValidateInput
    \/ WebValidateInput
    \/ GenerateDocument

\* The engine functions, the validators and the handlers without a free
\* argument, applied to every input record.
Spec == Init /\ [][Next]_vars

\* The main window from start-up: every input connected to update_data, the
\* tender type, and the AMC check box.
WindowInit ==
    /\ data = DefaultData
    /\ out = [op |-> "none"]
    /\ form_errors = <<>>
    /\ labels = InitialLabels
    /\ db = InitialDatabase
    /\ login = LoggedIn(1)
    /\ load_dialog = NoLoadDialog

WindowNext ==
    \/ OnValueChanged
    \/ OnRefNumberChanged
    \/ OnTextChanged
    \/ OnOtherInputChanged
    \/ OnTenderTypeChanged
    \/ OnHasAmcStateChanged

WindowSpec == WindowInit /\ [][WindowNext]_vars

\* The main window from start-up: the handlers of the tender type, the
\* contract period, the supplying capacity, the MSE and AMC check boxes and
\* the divisibility, the preview, and the document generated from the record
\* they leave.
CapacityInit ==
    /\ data = DefaultData
    /\ out = [op |-> "none"]
    /\ form_errors = <<>>
    /\ labels = InitialLabels
    /\ db = InitialDatabase
    /\ login = LoggedIn(1)
    /\ load_dialog = NoLoadDialog

CapacityNext ==
    \/ OnTenderTypeChanged
    \/ OnContractPeriodYearsChanged
    \/ UpdateSupplyingCapacity
    \/ UpdateMseRelaxation
    \/ OnHasAmcStateChanged
    \/ OnDivisibilityChanged
    \/ UpdateCalculatedValues
    \/ GenerateBqcDocument

CapacitySpec == CapacityInit /\ [][CapacityNext]_vars

\* The main window and the database, used by the registered users in turn.
StoreInit ==
    /\ data = DefaultData
    /\ out = [op |-> "none"]
    /\ form_errors = <<>>
    /\ labels = InitialLabels
    /\ db = InitialDatabase
    /\ login = LoggedIn(1)
    /\ load_dialog = NoLoadDialog

StoreNext ==
    \/ OnRefNumberChanged
    \/ OnTenderTypeChanged
    \/ SaveData
    \/ OpenLoadDialog
    \/ LoadData
    \/ CancelLoadDialog
    \/ ClearForm
    \/ CloseWindow
    \/ LoginAccept
    \/ OpenMainWindow

StoreSpec == StoreInit /\ [][StoreNext]_vars

\* The application from start-up to the main window.
LoginInit ==
    /\ data = DefaultData
    /\ out = [op |-> "none"]
    /\ form_errors = <<>>
    /\ labels = InitialLabels
    /\ db = InitialDatabase
    /\ login = LoginOpen
    /\ load_dialog = NoLoadDialog

LoginNext ==
    \/ LoginAccept
    \/ LoginReject
    \/ RegisterUser
    \/ OpenMainWindow

LoginSpec == LoginInit /\ [][LoginNext]_vars

\* A session of the web page: the data initialize_session_state creates,
\* then runs of main().  No desktop window is open.
SessionInit ==
    /\ data = DefaultData
    /\ out = [op |-> "none"]
    /\ form_errors = <<>>
    /\ labels = InitialLabels
    /\ db = InitialDatabase
    /\ login = LoginOpen
    /\ load_dialog = NoLoadDialog

SessionNext ==
    \/ WebMain
    \/ WebSubmit
    \/ WebClearForm

SessionSpec == SessionInit /\ [][SessionNext]_vars

---------------------------------------------------------------------------
(* Properties *)

EngineOps == {"generate_bqc_document", "update_calculated_values"}

\* The tier table of the EMD rule: the EMD of the first tier whose inclusive
\* upper bound is >= e.
TierEmd(e) ==
    IF e <= 50 * Scale THEN 0
    ELSE IF e <= 100 * Scale THEN 1 * Scale
    ELSE IF e <= 500 * Scale THEN 250
    ELSE IF e <= 1000 * Scale THEN 5 * Scale
    ELSE IF e <= 1500 * Scale THEN 750
    ELSE IF e <= 2500 * Scale THEN 10 * Scale
    ELSE 20 * Scale

InTier100(e) == e > 50 * Scale /\ e <= 100 * Scale

\* C1: outside the Goods/Services carve-out case, calculate_emd returns the
\* EMD of the first tier whose inclusive upper bound is >= the estimate.
C1_EmdTiers ==
    (out.op = "calculate_emd"
        /\ ~(InTier100(out.estimated_value)
                /\ out.tender_type \in {"Goods", "Service"}))
    => out.emd = TierEmd(out.estimated_value)

C1_Witness ==
    /\ out.op = "calculate_emd"
    /\ out.estimated_value = 100 * Scale
    /\ out.tender_type = "Works"
    /\ out.emd = 1 * Scale

\* C2: in the 100 tier the EMD is 0 for Goods and for Service tenders and 1
\* only for Works; the carve-out changes the result at no other tier.
C2_CarveOutGoodsAndService ==
    out.op = "calculate_emd"
    => out.emd = IF InTier100(out.estimated_value)
                     /\ out.tender_type \in {"Goods", "Service"}
                 THEN 0
                 ELSE TierEmd(out.estimated_value)

\* C3: for a fixed tender type calculate_emd is monotonic non-decreasing in
\* the estimate (both implementations).
C3_EmdMonotonic ==
    /\ out.op = "calculate_emd"
       => \A e1 \in EmdEstimates :
            e1 <= out.estimated_value
            => calculate_emd(e1, out.tender_type) <= out.emd
    /\ out.op = "web_calculate_emd"
       => \A e1 \in EmdEstimates :
            e1 <= out.estimated_value
            => web_calculate_emd(e1, out.tender_type) <= out.emd

C3_Witness ==
    /\ out.op = "calculate_emd"
    /\ out.tender_type = "Goods"
    /\ out.estimated_value = 100 * Scale + EmdDelta
    /\ out.emd = 250
    /\ calculate_emd(100 * Scale, "Goods") = 0

\* C4: the turnover requirement is basis * (incl - amc), whatever the excl
\* estimate, when has_amc and amc_value > 0; otherwise it is basis * excl,
\* whatever amc_value.
C4_TurnoverTwoBranch ==
    out.op \in EngineOps
    => IF data.has_amc /\ data.amc_value > 0
       THEN /\ out.turnover_requirement
                 = out.base_percentage * (data.cec_estimate_incl_gst - data.amc_value)
            /\ \A e2 \in Money :
                 turnover_requirement([data EXCEPT !.cec_estimate_excl_gst = e2])
                     = out.turnover_requirement
       ELSE /\ out.turnover_requirement
                 = out.base_percentage * data.cec_estimate_excl_gst
            /\ ~data.has_amc
               => \A a2 \in AmcValues :
                    turnover_requirement([data EXCEPT !.amc_value = a2])
                        = out.turnover_requirement

C4_Witness ==
    /\ out.op = "generate_bqc_document"
    /\ data.has_amc
    /\ data.amc_value = 50 * Scale
    /\ data.cec_estimate_incl_gst = 1100 * Scale
    /\ data.cec_estimate_excl_gst = 75 * Scale
    /\ data.divisibility = "Non-Divisible"
    /\ out.turnover_requirement = 315 * 1000 * Scale

\* C5: the turnover basis is 30% when Non-Divisible and 30% * (1 + factor)
\* when Divisible.
C5_TurnoverBasis ==
    out.op \in EngineOps
    => /\ data.divisibility = "Non-Divisible" => out.base_percentage = 300
       /\ data.divisibility = "Divisible"
          => out.base_percentage * Scale = 300 * (Scale + data.correction_factor)

C5_Witness ==
    /\ out.op = "generate_bqc_document"
    /\ data.divisibility = "Divisible"
    /\ data.correction_factor = 20
    /\ ~data.has_amc
    /\ data.cec_estimate_excl_gst = 1000 * Scale
    /\ out.base_percentage = 360
    /\ out.turnover_requirement = 360 * 1000 * Scale

\* C6: when Non-Divisible, records that differ only in correction_factor get
\* the same basis, turnover requirement and experience options.
C6_FactorIgnoredWhenNonDivisible ==
    (out.op \in EngineOps /\ data.divisibility = "Non-Divisible")
    => \A c2 \in Factors :
         LET d2 == [data EXCEPT !.correction_factor = c2]
             o2 == IF out.op = "generate_bqc_document"
                   THEN generate_bqc_document(d2)
                   ELSE update_calculated_values(d2)
         IN  /\ o2.base_percentage = out.base_percentage
             /\ o2.turnover_requirement = out.turnover_requirement
             /\ o2.option_percents = out.option_percents
             /\ o2.option_values = out.option_values

C6_Witness ==
    /\ out.op = "generate_bqc_document"
    /\ data.divisibility = "Non-Divisible"
    /\ data.correction_factor = 25
    /\ data.tender_type = "Works"
    /\ data.cec_estimate_incl_gst = 1000 * Scale
    /\ out.base_percentage = 300
    /\ out.option_values.a = 400 * 1000 * Scale

\* C7: for Service and Works the options are 40/50/80% of the incl estimate,
\* each times (1 + factor) when Divisible; with incl > 0 they are nonnegative
\* and A <= B <= C.
C7_ExperienceOptions ==
    (out.op = "generate_bqc_document" /\ data.tender_type \in {"Service", "Works"})
    => LET k == IF data.divisibility = "Divisible"
                THEN Scale + data.correction_factor
                ELSE Scale
           incl == data.cec_estimate_incl_gst
       IN  /\ out.has_experience
           /\ out.option_values.a = 4 * k * incl
           /\ out.option_values.b = 5 * k * incl
           /\ out.option_values.c = 8 * k * incl
           /\ incl > 0
              => /\ 0 <= out.option_values.a
                 /\ out.option_values.a <= out.option_values.b
                 /\ out.option_values.b <= out.option_values.c

C7_Witness ==
    /\ out.op = "generate_bqc_document"
    /\ data.tender_type = "Service"
    /\ data.divisibility = "Divisible"
    /\ data.correction_factor = 25
    /\ data.cec_estimate_incl_gst = 1000 * Scale
    /\ out.option_values = [a |-> 500 * 1000 * Scale,
                            b |-> 625 * 1000 * Scale,
                            c |-> 1000 * 1000 * Scale]

\* C8: the annualized value is excl / years when years > 0 (desktop),
\* (excl / months) * 12 when months > 0 (web), and otherwise the supplied
\* annualized_value, unchanged.
C8_AnnualizedValue ==
    /\ out.op = "generate_bqc_document"
       => IF data.contract_period_years > 0
          THEN /\ out.annualized_value.den > 0
               /\ out.annualized_value.num * data.contract_period_years
                    = data.cec_estimate_excl_gst * out.annualized_value.den
          ELSE out.annualized_value = data.annualized_value
    /\ out.op = "web_generate_bqc_document"
       => IF data.contract_period_months > 0
          THEN /\ out.annualized_value.den > 0
               /\ out.annualized_value.num * data.contract_period_months * Scale
                    = 12 * data.cec_estimate_excl_gst * out.annualized_value.den
          ELSE out.annualized_value = data.annualized_value

C8_Witness ==
    /\ out.op = "generate_bqc_document"
    /\ data.contract_period_years = 250
    /\ data.cec_estimate_excl_gst = 1000 * Scale
    /\ out.annualized_value = [num |-> 400, den |-> 1]

\* C9: every division by a contract period, in the live preview and in
\* document generation of both variants, has a strictly positive divisor.
C9_NoDivisionByNonPositivePeriod ==
    out.op \in {"generate_bqc_document", "update_calculated_values",
                "update_supplying_capacity", "update_mse_relaxation",
                "web_generate_bqc_document", "web_main"}
    => /\ \A p \in out.divisors : p > 0
       /\ out.ok

C9_Witness ==
    /\ out.op = "generate_bqc_document"
    /\ data.contract_period_years = 0
    /\ data.cec_estimate_excl_gst = 1000 * Scale
    /\ out.divisors = {}
    /\ out.ok

\* C10: for Goods the group-adjusted capacity is floor(base * 0.30), in the
\* document and in the capacity label, and without MSE relaxation the final
\* capacity equals it.
C10_SupplyingCapacityFloor ==
    /\ (out.op = "generate_bqc_document" /\ data.tender_type = "Goods")
       => /\ 10 * out.calculated_supplying_capacity <= 3 * data.supplying_capacity
          /\ 3 * data.supplying_capacity < 10 * (out.calculated_supplying_capacity + 1)
          /\ ~data.mse_relaxation
             => out.final_supplying_capacity = out.calculated_supplying_capacity
    /\ (out.op = "update_supplying_capacity" /\ data.tender_type = "Goods")
       => /\ out.base = data.supplying_capacity
          /\ 10 * out.calculated_value <= 3 * out.base
          /\ 3 * out.base < 10 * (out.calculated_value + 1)

C10_Witness ==
    /\ out.op = "generate_bqc_document"
    /\ data.tender_type = "Goods"
    /\ data.supplying_capacity = 30
    /\ ~data.mse_relaxation
    /\ out.calculated_supplying_capacity = 9
    /\ out.final_supplying_capacity = 9

\* C11: with MSE relaxation the final capacity is
\* floor(floor(base * 0.30) * 0.85), two truncations in that order, in the
\* document and in the MSE label, which therefore agree.
C11_MseRelaxationOrder ==
    /\ (out.op = "generate_bqc_document" /\ data.mse_relaxation)
       => LET g == out.calculated_supplying_capacity
              f == out.final_supplying_capacity
          IN  /\ 10 * g <= 3 * data.supplying_capacity
              /\ 3 * data.supplying_capacity < 10 * (g + 1)
              /\ 100 * f <= 85 * g
              /\ 85 * g < 100 * (f + 1)
    /\ (out.op = "update_supplying_capacity" /\ data.mse_relaxation)
       => /\ out.mse.shown
          /\ out.mse.calculated_value = calculated_supplying_capacity(data)
          /\ out.mse.relaxed_value = final_supplying_capacity(data)
          /\ 100 * out.mse.relaxed_value <= 85 * out.mse.calculated_value
          /\ 85 * out.mse.calculated_value < 100 * (out.mse.relaxed_value + 1)

\* base 4: floor(1.2) = 1, floor(0.85) = 0, while floor(4 * 0.255) = 1.
C11_Witness ==
    /\ out.op = "generate_bqc_document"
    /\ data.mse_relaxation
    /\ data.supplying_capacity = 4
    /\ out.calculated_supplying_capacity = 1
    /\ out.final_supplying_capacity = 0

\* The standard performance-security percent of the specification.
StandardPercent(t) == IF t \in {"Goods", "Service"} THEN 5 ELSE 10

\* C12: the standard performance-security percent used by document
\* generation and set by a tender-type change is 5 for Goods, 5 for Service
\* and 10 for Works.
C12_StandardPerformanceSecurity ==
    /\ out.op = "generate_bqc_document"
       => out.performance_security.standard = StandardPercent(data.tender_type)
    /\ out.op = "update_tender_type"
       => /\ out.spin_box_value = StandardPercent(data.tender_type)
          /\ data.performance_security = StandardPercent(data.tender_type)

\* C13: the performance security is reported as overridden exactly when the
\* requested percent differs from the standard percent of the tender type,
\* and the requested percent is echoed unchanged.
C13_PerformanceSecurityOverride ==
    out.op \in {"generate_bqc_document", "web_generate_bqc_document"}
    => /\ out.performance_security.requested = data.performance_security
       /\ out.performance_security.is_overridden
            = (data.performance_security # StandardPercent(data.tender_type))


\* The operations that return a validator's (ok, errors) pair.
ValidatorOps == {"validate_input", "web_validate_input"}

\* The rules of the validator behind an operation: one per required field
\* of the variant and one per numeric and type-specific check.
Rules(op) ==
    {"ref_number", "tender_description", "pr_reference", "budget_details",
     "scope_of_work"}
    \cup (IF op = "web_validate_input"
          THEN {"item_name", "project_name", "contract_period"}
          ELSE {})
    \cup {"incl_positive", "excl_positive", "incl_at_least_excl",
          "period_positive", "delivery_period", "warranty_period",
          "similar_work_definition"}

\* Rule r of the validator behind op holds of the record d.
RuleHolds(r, d, op) ==
    CASE r = "incl_positive" -> d.cec_estimate_incl_gst > 0
      [] r = "excl_positive" -> d.cec_estimate_excl_gst > 0
      [] r = "incl_at_least_excl" ->
            d.cec_estimate_incl_gst >= d.cec_estimate_excl_gst
      [] r = "period_positive" ->
            IF op = "web_validate_input"
            THEN d.contract_period_months > 0 \/ d.annualized_value.num > 0
            ELSE d.contract_period_years > 0
      [] r \in {"delivery_period", "warranty_period"} ->
            d.tender_type = "Goods" => d[r] # ""
      [] r = "similar_work_definition" ->
            d.tender_type \in {"Service", "Works"} => d[r] # ""
      [] OTHER -> d[r] # ""

\* The message reported when rule r of the validator behind op is violated.
RuleMessage(r, op) ==
    CASE r = "incl_positive" -> InclNotPositive
      [] r = "excl_positive" -> ExclNotPositive
      [] r = "incl_at_least_excl" -> InclBelowExcl
      [] r = "period_positive" ->
            IF op = "web_validate_input"
            THEN MonthsOrAnnualized
            ELSE YearsNotPositive
      [] r = "delivery_period" -> DeliveryRequired
      [] r = "warranty_period" -> WarrantyRequired
      [] r = "similar_work_definition" -> SimilarWorkRequired
      [] OTHER -> RequiredMessage(r)

\* How many times the message occurs in the error list.
Occurrences(message, errors) ==
    Cardinality({i \in 1 .. Len(errors) : errors[i] = message})

\* C14: validate_input collects all violations: the error list holds exactly
\* one message for each violated rule and none for a satisfied rule, so a
\* record violating k rules yields k messages.
C14_AllViolationsCollected ==
    out.op \in ValidatorOps
    => /\ \A r \in Rules(out.op) :
            Occurrences(RuleMessage(r, out.op), out.errors)
                = (IF RuleHolds(r, data, out.op) THEN 0 ELSE 1)
       /\ Len(out.errors)
            = Cardinality({r \in Rules(out.op) : ~RuleHolds(r, data, out.op)})

\* A record with two required fields missing (and a third rule violated)
\* gets both required-field messages.
C14_Witness ==
    /\ out.op = "validate_input"
    /\ data.ref_number = ""
    /\ data.tender_description = ""
    /\ data.cec_estimate_incl_gst < data.cec_estimate_excl_gst
    /\ Len(out.errors) = 3
    /\ out.errors[1] = RequiredMessage("ref_number")
    /\ out.errors[2] = RequiredMessage("tender_description")

\* C15: validate_input returns ok exactly when the error list is empty,
\* which is exactly when every rule of the variant holds; the Goods-only
\* fields are not required of Service/Works tenders, nor the similar-work
\* definition of Goods tenders.
C15_OkIffEveryRuleHolds ==
    out.op \in ValidatorOps
    => /\ out.ok = (out.errors = <<>>)
       /\ out.ok = (\A r \in Rules(out.op) : RuleHolds(r, data, out.op))

\* A Service tender without a delivery period is accepted by the web
\* validator on the strength of its annualized value alone.
C15_Witness ==
    /\ out.op = "web_validate_input"
    /\ out.ok
    /\ data.tender_type = "Service"
    /\ data.delivery_period = ""
    /\ data.contract_period_months = 0
    /\ data.annualized_value.num > 0

\* 1 for a required-field message, 2 for a numeric-rule message (estimates
\* and positive period), 3 for a type-specific message.
MessageClass(message) ==
    IF message[1] = "Field" THEN 1
    ELSE IF message \in {InclNotPositive, ExclNotPositive, InclBelowExcl,
                         YearsNotPositive, MonthsOrAnnualized} THEN 2
    ELSE 3

\* The position of a required-field message's field in the declared list.
DeclaredPosition(message, fields) ==
    CHOOSE k \in 1 .. Len(fields) : RequiredMessage(fields[k]) = message

\* C16: the error list is in one fixed order in both variants: required-field
\* messages in declaration order, then numeric-rule messages (estimates and
\* positive period), then type-specific messages.
C16_FixedErrorOrder ==
    out.op \in ValidatorOps
    => LET fields == IF out.op = "web_validate_input"
                     THEN web_required_fields
                     ELSE required_fields
       IN  \A i, j \in 1 .. Len(out.errors) :
              i < j
              => /\ MessageClass(out.errors[i]) <= MessageClass(out.errors[j])
                 /\ (MessageClass(out.errors[i]) = 1
                     /\ MessageClass(out.errors[j]) = 1)
                    => DeclaredPosition(out.errors[i], fields)
                         < DeclaredPosition(out.errors[j], fields)

\* The operations that are one call of an engine function on the record.
EngineCalls ==
    {"validate_input", "web_validate_input", "calculate_emd",
     "web_calculate_emd", "generate_bqc_document", "web_generate_bqc_document"}

\* C18: the engine functions never mutate their input: across a call of
\* validate_input, calculate_emd or generate_bqc_document, whether it returns
\* a result or an error, every field of the record keeps its value.
C18_EngineNeverMutatesInput ==
    [][out'.op \in EngineCalls => data' = data]_vars

\* The generator has returned for a record whose requested performance
\* security differs from the standard one, and the record still holds the
\* requested percent the result was computed from.
C18_Witness ==
    /\ out.op = "generate_bqc_document"
    /\ data.contract_period_years = 0
    /\ data.performance_security # standard_ps(data)
    /\ out.performance_security.requested = data.performance_security
    /\ out.performance_security.is_overridden

\* The verdict of the validator of the front-end an operation belongs to.
FrontEndValidation(op, d) ==
    IF op \in {"web_main", "web_submit"}
    THEN web_validate_input(d)
    ELSE validate_input(d)

\* The operation has put a computed figure before the user: a live preview
\* that shows a turnover requirement, a field change of the desktop window
\* that leaves one on its label, or a generate request that has produced the
\* document.
FiguresSurfaced ==
    \/ /\ out.op \in {"update_calculated_values", "web_main"}
       /\ out.turnover_requirement > 0
    \/ /\ out.op = "field_change"
       /\ labels.turnover_requirement > 0
    \/ /\ out.op \in {"generate_document", "web_submit"}
       /\ out.document.op # "none"

\* C19: in every reachable state of either front-end, a displayed computed
\* figure implies that the current record passes validate_input.
C19_AllOrNothingGate ==
    FiguresSurfaced => FrontEndValidation(out.op, data).ok

\* C20: in both front-ends generate_bqc_document is called only after
\* validate_input on the current record returned ok; when validation fails no
\* document is produced and the complete error list is reported to the user.
C20_GeneratorOnlyAfterValidation ==
    out.op \in {"generate_document", "web_submit"}
    => LET v == FrontEndValidation(out.op, data)
       IN  /\ out.generator_called = v.ok
           /\ ~v.ok => /\ out.document.op = "none"
                       /\ out.reported = v.errors

\* The record violates a precondition that validate_input checks.
ViolatesPrecondition(d) ==
    \/ d.contract_period_years <= 0
    \/ d.cec_estimate_incl_gst <= 0
    \/ d.cec_estimate_excl_gst <= 0
    \/ d.cec_estimate_incl_gst < d.cec_estimate_excl_gst

\* C24: generate_bqc_document called directly on a record that violates a
\* validated precondition (non-positive period, non-positive or inconsistent
\* estimates) fails with an error outcome instead of producing figures.
C24_FailFastOnInvalidRecord ==
    (out.op = "generate_bqc_document" /\ ViolatesPrecondition(data))
    => ~out.ok

\* C27: for every record that passes the desktop validate_input the turnover
\* requirement is nonnegative, also with has_amc set and amc_value > 0.
C27_TurnoverNonnegative ==
    (out.op = "generate_bqc_document" /\ validate_input(data).ok)
    => out.turnover_requirement >= 0

\* C28 (as stated): right after any tender-type change event the record's
\* performance security equals the standard percent document generation
\* uses for the new type, so a document generated then does not report it
\* as overridden, whatever value was set before.
C28_NoOverrideAfterTypeChange ==
    out.op = "update_tender_type"
    => /\ data.tender_type = out.text
       /\ data.performance_security = standard_ps(data)
       /\ ~generate_bqc_document(data).performance_security.is_overridden

\* C28 (amended): right after a tender-type change event that ran with the
\* spin box showing the record's performance security, or that moved the
\* spin box, the record holds the standard percent of the new type and a
\* document generated then reports no override; after an event that ran
\* with the spin box already at the new default while the record held
\* another value (load_data), the record keeps that value and the document
\* reports it as overridden.
C28_NoOverrideAfterSyncedTypeChange ==
    out.op = "update_tender_type"
    => /\ data.tender_type = out.text
       /\ (out.in_sync \/ out.recalculated)
          => /\ data.performance_security = standard_ps(data)
             /\ ~generate_bqc_document(data).performance_security
                    .is_overridden
       /\ (~out.in_sync /\ ~out.recalculated)
          => /\ data.performance_security # standard_ps(data)
             /\ generate_bqc_document(data).performance_security
                    .is_overridden

\* The type has changed to Service with the spin box showing the record's
\* value, and the spin box has moved: the record now holds 10, the percent
\* generation uses for Service.
C28_Witness ==
    /\ out.op = "update_tender_type"
    /\ out.text = "Service"
    /\ out.in_sync
    /\ out.recalculated
    /\ data.performance_security = 10
    /\ generate_bqc_document(data).performance_security.standard = 10

\* C29: the desktop and web engines agree where their inputs coincide:
\* calculate_emd on every (estimate, type), and for Non-Divisible records
\* without maintenance value the turnover requirement, the experience
\* options and the standard performance security.
C29_DesktopWebAgree ==
    /\ out.op = "calculate_emd"
       => out.emd = web_calculate_emd(out.estimated_value, out.tender_type)
    /\ (/\ out.op = "generate_bqc_document"
        /\ data.divisibility = "Non-Divisible"
        /\ maintenance_value(data) = 0)
       => LET w == web_generate_bqc_document(data)
          IN  /\ out.turnover_requirement = w.turnover_requirement
              /\ out.turnover_requirement = 300 * data.cec_estimate_excl_gst
              /\ out.has_experience = w.has_experience
              /\ out.option_values = w.option_values
              /\ out.performance_security.standard
                   = w.performance_security.standard

\* A Works tender of 1000 Lakhs excl. and 1100 Lakhs incl.: both engines ask
\* for a turnover of 300 Lakhs and an option A of 440 Lakhs.
C29_Witness ==
    /\ out.op = "generate_bqc_document"
    /\ data.tender_type = "Works"
    /\ data.divisibility = "Non-Divisible"
    /\ maintenance_value(data) = 0
    /\ data.cec_estimate_excl_gst = 1000 * Scale
    /\ data.cec_estimate_incl_gst = 1100 * Scale
    /\ out.turnover_requirement = 300 * 1000 * Scale
    /\ web_generate_bqc_document(data).option_values.a = 400 * 1100 * Scale

\* C26: after clear_form, from any prior form state, every field of the
\* record has its initial default value, in the desktop and the web variant.
C26_ClearFormRestoresDefaults ==
    out.op \in {"clear_form", "web_clear_form"}
    => /\ \A f \in DOMAIN DefaultData : data[f] = DefaultData[f]
       /\ form_errors = <<>>

\* The entered credentials are those of a registered user.
Authentic(users, typed, password) ==
    /\ strip(typed) # <<>>
    /\ password # ""
    /\ \E u \in users : /\ u.username = strip(typed)
                        /\ u.password = hash_password(password)

\* C30: LoginDialog.accept accepts and sets user_id only when the username
\* exists and the digest of the entered password equals the stored one; on
\* empty input, unknown user, wrong password or a database error the dialog
\* stays unaccepted with user_id None; the main window is created only after
\* an accepted login, with that user's id.
C30_WindowOnlyAfterLogin ==
    /\ out.op = "login_accept"
       => /\ out.accepted
               = (out.db_ok /\ Authentic(db.users, out.username, out.password))
          /\ out.accepted
               => /\ login.dialog = "accepted"
                  /\ \E u \in db.users :
                        /\ u.id = login.user_id
                        /\ u.username = strip(out.username)
          /\ ~out.accepted => (login.dialog = "open" /\ login.user_id = 0)
    /\ login.dialog # "accepted" => (login.user_id = 0 /\ login.window = 0)
    /\ login.window # 0
       => /\ login.dialog = "accepted"
          /\ login.window = login.user_id
          /\ \E u \in db.users : u.id = login.window

\* The main window has opened for a user who registered in this run and
\* then logged in.
C30_Witness ==
    /\ out.op = "main_window"
    /\ login.window = 3
    /\ \E u \in db.users : u.id = 3 /\ u.username = <<"cat">>

\* The figures the labels show are those of record d.
LabelsShow(d) ==
    LET cv == update_calculated_values(d)
    IN  /\ labels.annualized_value = cv.annualized_value
        /\ labels.turnover_requirement = cv.turnover_requirement
        /\ labels.emd_amount = cv.emd_amount
        /\ d.tender_type \in ExperienceTypes
           => /\ labels.experience_written
              /\ labels.option_values = preview_option_values(d)

\* C21: after any field-change handler of the desktop window (tender type,
\* has_amc, AMC value, divisibility, correction factor, estimates, period)
\* the displayed annualized value, turnover requirement, EMD preview and,
\* for Service/Works, experience options equal the values computed from the
\* current record; no stale figure remains on screen.
C21_NoStaleFigure ==
    out.op = "field_change" => LabelsShow(data)

\* The same for the handlers other than update_has_amc and
\* update_tender_type.
C21_RecalculatingHandlers ==
    (out.op = "field_change"
        /\ out.handler \notin {"update_has_amc", "update_tender_type"})
    => LabelsShow(data)

\* The qualification result and the validation outcome of two records are
\* the same.
SameOutcome(d, e) ==
    /\ generate_bqc_document(d) = generate_bqc_document(e)
    /\ validate_input(d) = validate_input(e)

\* C22: save_data followed by load_data, into any form, yields a record
\* whose recomputed qualification result (EMD, annualized value, turnover,
\* experience options, supplying capacity, standard performance security and
\* overridden flag) and validation outcome are those of the record that was
\* saved.
C22_RoundTripPreservesOutcome ==
    out.op = "load_data"
    => \A d \in RoundTripRecords :
          db_data(d) = out.row.record => SameOutcome(d, data)

\* No two rows of bqc_data have the same user and reference number.
UniqueKeys ==
    \A i, j \in 1 .. Len(db.bqc_data) :
        (/\ db.bqc_data[i].user_id = db.bqc_data[j].user_id
         /\ db.bqc_data[i].record.ref_number = db.bqc_data[j].record.ref_number)
        => i = j

\* A Save Data step that wrote: the row of the saved key holds the saved
\* fields, it is the only row that changed, and the table grew by that one
\* row exactly when the key was new.
UpsertStep ==
    (out'.op = "save_data" /\ out'.saved /\ db' # db)
    => LET rows == db.bqc_data
           after == db'.bqc_data
           key == existing_record(rows, out'.user_id, out'.record.ref_number)
           now == existing_record(after, out'.user_id,
                                  out'.record.ref_number)
       IN  /\ Cardinality(now) = 1
           /\ \A i \in now : after[i].record = out'.record
           /\ Len(after) = IF key = {} THEN Len(rows) + 1 ELSE Len(rows)
           /\ \A i \in 1 .. Len(rows) : i \notin now => after[i] = rows[i]
           /\ \A i \in now : i <= Len(rows) => after[i].id = rows[i].id

\* C23: save_data is an upsert on (user_id, ref_number): there is at most
\* one row per key; saving under an existing key replaces that row's fields
\* and adds no row, saving under a new key inserts exactly one row, and the
\* other rows are left as they were.
C23_UpsertOnKey == []UniqueKeys /\ [][UpsertStep]_vars

\* A save has replaced the fields of the user's row while another user holds
\* a row with the same reference number.
C23_Witness ==
    /\ out.op = "save_data"
    /\ out.saved
    /\ out.replaced
    /\ \E i, j \in 1 .. Len(db.bqc_data) :
          /\ db.bqc_data[i].user_id = out.user_id
          /\ db.bqc_data[j].user_id # out.user_id
          /\ db.bqc_data[i].record = out.record
          /\ db.bqc_data[j].record.ref_number = out.record.ref_number
          /\ db.bqc_data[j].record # out.record

\* A step leaves the rows of the users other than the one at the window as
\* they were, and adds rows for that user only.
OwnRowsOnly ==
    /\ Len(db'.bqc_data) >= Len(db.bqc_data)
    /\ \A i \in 1 .. Len(db.bqc_data) :
          db.bqc_data[i].user_id # login.window
          => db'.bqc_data[i] = db.bqc_data[i]
    /\ \A i \in Len(db.bqc_data) + 1 .. Len(db'.bqc_data) :
          db'.bqc_data[i].user_id = login.window

\* A row that was loaded belongs to the user at the window.
LoadedOwnRow ==
    out.op = "load_data"
    => /\ out.row.user_id = login.window
       /\ \A f \in DOMAIN out.row.record \ {"supplying_capacity",
                                            "performance_security",
                                            "annualized_value"} :
             data[f] = out.row.record[f]

\* The rows the LoadDataDialog lists belong to the user at the window.
ListedOwnRows ==
    \A id \in load_dialog.ids :
        record_by_id(db.bqc_data, id).user_id = login.window

\* C25: a user can list and load only rows saved under their own user id,
\* and a save never creates, modifies or replaces a row of another user,
\* also when both use the same reference number.
C25_UserIsolation ==
    []LoadedOwnRow /\ []ListedOwnRows /\ [][OwnRowsOnly]_vars

\* A user has loaded their own row while another user holds a row with the
\* same reference number and other fields.
C25_Witness ==
    /\ out.op = "load_data"
    /\ \E j \in 1 .. Len(db.bqc_data) :
          /\ db.bqc_data[j].user_id # login.window
          /\ db.bqc_data[j].record.ref_number = out.row.record.ref_number
          /\ db.bqc_data[j].record # out.row.record
=============================================================================
